---- MODULE Spec2Model ----
(***************************************************************************)
(* Model of yamlviewer.py: the YamlViewer object (tree items, _item_map,   *)
(* _fname, _content), the files it reads and writes, and its handlers      *)
(* load, re_load, expanded, save, plus the view's expand, collapse and     *)
(* edit events.                                                            *)
(*                                                                         *)
(* Everything runs on the GUI thread, one handler at a time, so every      *)
(* action is one whole handler.  Python call depth is modelled explicitly  *)
(* (parameter d of the operators): a call deeper than the interpreter's    *)
(* recursion limit raises RecursionError.  An exception that leaves a slot *)
(* invoked by a Qt signal is printed by the binding and the emitting call  *)
(* (setExpanded) returns normally.                                         *)
(***************************************************************************)
EXTENDS Integers, Sequences, FiniteSets, TLC

VARIABLES
    items,      \* QTreeWidgetItem objects by identity: 0 is _root, 1 is _marker
    item_map,   \* self._item_map: item identity -> handler
    fname,      \* self._fname
    content,    \* self._content
    fs,         \* the files: path -> file
    last,       \* history: the last event handled and what it did
    populated,  \* history: items on which populate has run to completion
    goodPath,   \* history: path of the most recent load that returned normally
    nevents     \* number of events handled so far

vars == <<items, item_map, fname, content, fs, last, populated, goodPath, nevents>>

-----------------------------------------------------------------------------
(* Bounds *)

RecursionLimit == 10    \* sys.getrecursionlimit(), scaled down
MaxEvents == 4          \* events in one run
MaxValueDepth == 4      \* fuel of the recursive predicates over values

-----------------------------------------------------------------------------
(* Parsed values (what yaml.load returns) *)

PyInt(n)  == [kind |-> "int", n |-> n]
PyStr(s)  == [kind |-> "str", s |-> s]
PyBool(b) == [kind |-> "bool", b |-> b]
PyNone   == [kind |-> "null"]
Dict(es) == [kind |-> "dict", entries |-> es]     \* es: sequence of [k, v], insertion order
List(xs) == [kind |-> "list", elems |-> xs]
Alias(a) == [kind |-> "alias", anchor |-> a]      \* the object anchored as &a
KV(k, v) == [k |-> k, v |-> v]
Unset    == [kind |-> "unset"]                    \* attribute not yet assigned

\* &r {b: *r, a: 1}: a mapping that contains itself
Anchors == [r |-> Dict(<<KV("b", Alias("r")), KV("a", PyInt(1))>>)]

Deref(v) == IF v.kind = "alias" THEN Anchors[v.anchor] ELSE v

\* type(v): the Python type of the object
type(v) == Deref(v).kind

Digit == <<"0", "1", "2", "3", "4", "5", "6", "7", "8", "9">>

RECURSIVE UStr(_)
\* "%u" % n
UStr(n) == IF n < 10 THEN Digit[n + 1] ELSE UStr(n \div 10) \o Digit[(n % 10) + 1]

\* "%s" % v for a scalar v
StrOf(v) ==
    LET w == Deref(v) IN
    CASE w.kind = "int"  -> IF w.n < 0 THEN "-" \o UStr(0 - w.n) ELSE UStr(w.n)
      [] w.kind = "str"  -> w.s
      [] w.kind = "bool" -> IF w.b THEN "True" ELSE "False"
      [] OTHER           -> "None"

\* the summary with "items" whatever the length
ListSummary_plural(n) == "(list with " \o UStr(n) \o " items)"

\* [k, "(list with %u item%s)" % (len(v), "" if len(v)==1 else "s")]
ListSummary(n) == "(list with " \o UStr(n) \o " item" \o (IF n = 1 THEN "" ELSE "s") \o ")"

\* content.items() / enumerate(content) as a sequence of [k, v]
RECURSIVE Enumerate(_, _)
Enumerate(xs, i) ==
    IF i > Len(xs) THEN <<>> ELSE <<KV(UStr(i - 1), xs[i])>> \o Enumerate(xs, i + 1)

-----------------------------------------------------------------------------
(* Files *)

Missing    == [kind |-> "missing"]
Malformed  == [kind |-> "malformed"]
YamlFile(v) == [kind |-> "yaml", value |-> v]

Doc_nested == Dict(<<KV("b", Dict(<<KV("d", PyInt(-3)), KV("c", Dict(<<>>))>>)),
                     KV("a", PyBool(TRUE))>>)
Doc_cycle  == Alias("r")
Doc_list   == List(<<List(<<PyNone>>),
                     Dict(<<KV("d", PyStr("x")), KV("c", List(<<>>))>>)>>)

\* "" is what the file dialog returns when it is cancelled
Paths == {"", "nested.yaml", "cycle.yaml", "list.yaml", "bad.yaml", "new.yaml"}
SavePaths == {"", "nested.yaml", "new.yaml"}

InitFs == [p \in Paths |->
            CASE p = "nested.yaml" -> YamlFile(Doc_nested)
              [] p = "cycle.yaml"  -> YamlFile(Doc_cycle)
              [] p = "list.yaml"   -> YamlFile(Doc_list)
              [] p = "bad.yaml"    -> Malformed
              [] OTHER             -> Missing]

-----------------------------------------------------------------------------
(* Tree items *)

root   == 0     \* view.yaml.invisibleRootItem()
marker == 1     \* self._marker
None   == "None"

\* QTreeWidgetItem([t0, t1]); m tells a "marker" item from a real one
Item(t0, t1, m) == [text |-> <<t0, t1>>, children |-> <<>>, expanded |-> FALSE,
                    editable |-> FALSE, marker |-> m]

NewId(its) == Cardinality(DOMAIN its)

addChild(its, parent, c) == [its EXCEPT ![parent].children = Append(@, c)]

\* removeChild that leaves the child in place
removeChild_noop(its, parent, c) == its

removeChild(its, parent, c) ==
    [its EXCEPT ![parent].children = SelectSeq(@, LAMBDA y : y # c)]

takeChildren(its, parent) == [its EXCEPT ![parent].children = <<>>]

setFlagsEditable(its, x) == [its EXCEPT ![x].editable = TRUE]

Range(s) == {s[i] : i \in 1..Len(s)}

RECURSIVE Subtree(_, _)
\* the items of the tree below and including n
Subtree(its, n) ==
    {n} \cup UNION {Subtree(its, c) : c \in Range(its[n].children)}

RECURSIVE Shown(_, _)
\* the items the view shows below n: children of expanded items
Shown(its, n) ==
    Range(its[n].children) \cup
    UNION {Shown(its, c) : c \in {y \in Range(its[n].children) : its[y].expanded}}

-----------------------------------------------------------------------------
(* Handlers in _item_map *)

Good == [kind |-> "good"]                          \* self.good
\* lambda item, x=x, v=v: self.populate(v, x, z)
Closure(v, x, z) == [kind |-> "populate", v |-> v, x |-> x, z |-> z]

MapSet(m, k, h) == [y \in DOMAIN m \cup {k} |-> IF y = k THEN h ELSE m[y]]

\* The object state threaded through the handlers, with the exception being
\* raised (exc), the exceptions printed at slot boundaries (printed) and the
\* populate calls that returned (calls).
Self == [items |-> items, item_map |-> item_map, fname |-> fname,
         content |-> content, exc |-> "none", printed |-> {}, calls |-> <<>>]

Raise(st, e) == [st EXCEPT !.exc = e]

\* a call at depth d
TooDeep(d) == d > RecursionLimit

\* debug(msg)
debug(st, d) == IF TooDeep(d) THEN Raise(st, "RecursionError") ELSE st

\* self.good(item)
good(st, item, d) == IF TooDeep(d) THEN Raise(st, "RecursionError") ELSE st

\* add without line 122: a leaf gets no entry in _item_map
add_leaf_unregistered(st, item, k, v, d) ==
    IF TooDeep(d) THEN Raise(st, "RecursionError") ELSE
    LET s1 == debug(st, d + 1)
        x  == NewId(st.items)
        z  == x + 1
    IN  IF s1.exc # "none" THEN s1
        ELSE IF type(v) \in {"dict", "list"} THEN
            [s1 EXCEPT
               !.items = addChild(addChild(
                            setFlagsEditable(
                               @ @@ (x :> Item(k, IF type(v) = "dict" THEN ""
                                                  ELSE ListSummary(Len(Deref(v).elems)), FALSE))
                                 @@ (z :> Item("marker", "", TRUE)), x),
                            x, z), item, x),
               !.item_map = MapSet(@, x, Closure(v, x, z))]
        ELSE LET s2 == debug(s1, d + 1) IN
            [s2 EXCEPT
               !.items = addChild(setFlagsEditable(@ @@ (x :> Item(k, StrOf(v), FALSE)), x),
                                  item, x)]

\* add that registers self.good for a container instead of the closure
add_container_good(st, item, k, v, d) ==
    IF TooDeep(d) THEN Raise(st, "RecursionError") ELSE
    LET s1 == debug(st, d + 1)
        x  == NewId(st.items)
        z  == x + 1
    IN  IF s1.exc # "none" THEN s1
        ELSE IF type(v) \in {"dict", "list"} THEN
            [s1 EXCEPT
               !.items = addChild(addChild(
                            setFlagsEditable(
                               @ @@ (x :> Item(k, IF type(v) = "dict" THEN ""
                                                  ELSE ListSummary(Len(Deref(v).elems)), FALSE))
                                 @@ (z :> Item("marker", "", TRUE)), x),
                            x, z), item, x),
               !.item_map = MapSet(@, x, Good)]
        ELSE LET s2 == debug(s1, d + 1) IN
            [s2 EXCEPT
               !.items = addChild(setFlagsEditable(@ @@ (x :> Item(k, StrOf(v), FALSE)), x),
                                  item, x),
               !.item_map = MapSet(@, x, Good)]

\* populate.add(k, v), lines 101-123, called at depth d
add(st, item, k, v, d) ==
    IF TooDeep(d) THEN Raise(st, "RecursionError") ELSE
    LET s1 == debug(st, d + 1)
        x  == NewId(st.items)
        z  == x + 1
    IN  IF s1.exc # "none" THEN s1
        ELSE IF type(v) = "dict" THEN
            [s1 EXCEPT
               !.items = addChild(addChild(
                            setFlagsEditable(@ @@ (x :> Item(k, "", FALSE))
                                               @@ (z :> Item("marker", "", TRUE)), x),
                            x, z), item, x),
               !.item_map = MapSet(@, x, Closure(v, x, z))]
        ELSE IF type(v) = "list" THEN
            [s1 EXCEPT
               !.items = addChild(addChild(
                            setFlagsEditable(
                               @ @@ (x :> Item(k, ListSummary(Len(Deref(v).elems)), FALSE))
                                 @@ (z :> Item("marker", "", TRUE)), x),
                            x, z), item, x),
               !.item_map = MapSet(@, x, Closure(v, x, z))]
        ELSE LET s2 == debug(s1, d + 1) IN
            [s2 EXCEPT
               !.items = addChild(setFlagsEditable(@ @@ (x :> Item(k, StrOf(v), FALSE)), x),
                                  item, x),
               !.item_map = MapSet(@, x, Good)]

RECURSIVE addEach(_, _, _, _, _)
\* the for loops of lines 125-126 and 129-130: an exception ends the loop
addEach(st, item, es, i, d) ==
    IF i > Len(es) \/ st.exc # "none" THEN st
    ELSE addEach(add(st, item, es[i].k, es[i].v, d), item, es, i + 1, d)

\* the entries populate iterates over
Entries(v) ==
    CASE type(v) = "dict" -> Deref(v).entries
      [] type(v) = "list" -> Enumerate(Deref(v).elems, 1)
      [] OTHER            -> <<>>

\* populate without line 100: the item keeps its populating handler
populate_no_good(st, cont, item, ch, d) ==
    IF TooDeep(d) THEN Raise(st, "RecursionError") ELSE
    LET s1 == [st EXCEPT !.items = removeChild(@, item, ch)]
        s2 == addEach(s1, item, Entries(cont), 1, d + 1)
    IN  IF s2.exc # "none" THEN s2
        ELSE [s2 EXCEPT !.calls = Append(@, [v |-> cont, x |-> item, z |-> ch])]

\* populate(content, item, ch), lines 98-131, running at depth d
populate(st, cont, item, ch, d) ==
    IF TooDeep(d) THEN Raise(st, "RecursionError") ELSE
    LET s1 == [st EXCEPT !.items = removeChild(@, item, ch),
                         !.item_map = MapSet(@, item, Good)]
        s2 == addEach(s1, item, Entries(cont), 1, d + 1)
    IN  IF s2.exc # "none" THEN s2
        ELSE [s2 EXCEPT !.calls = Append(@, [v |-> cont, x |-> item, z |-> ch])]

\* expanded(item), lines 145-148, running at depth d
expanded(st, item, d) ==
    IF TooDeep(d) THEN Raise(st, "RecursionError") ELSE
    LET s1 == debug(st, d + 1) IN
    IF s1.exc # "none" THEN s1
    ELSE IF item \notin DOMAIN s1.item_map THEN Raise(s1, "KeyError")
    ELSE LET h == s1.item_map[item] IN
         IF h.kind = "good" THEN good(s1, item, d + 1)
         ELSE IF TooDeep(d + 1) THEN Raise(s1, "RecursionError")
         ELSE populate(s1, h.v, h.x, h.z, d + 2)

\* item.setExpanded(True) called at depth d: nothing for the invisible root
\* or an item already expanded; otherwise the view records the item as
\* expanded and emits itemExpanded, which line 63 connects to expanded.  An
\* exception leaving the slot is printed and cleared.
setExpanded(st, item, d) ==
    IF item = root \/ st.items[item].expanded THEN st
    ELSE LET s1 == [st EXCEPT !.items[item].expanded = TRUE]
             s2 == expanded(s1, item, d + 1)
         IN  IF s2.exc = "none" THEN s2
             ELSE [s2 EXCEPT !.exc = "none", !.printed = @ \cup {s2.exc}]

RECURSIVE expand_all_items(_, _, _)
RECURSIVE expand_children(_, _, _, _)

\* expand_all_items without the loop over the children
expand_all_items_shallow(st, item, d) ==
    IF TooDeep(d) THEN Raise(st, "RecursionError") ELSE setExpanded(st, item, d)

\* expand_all_items(item), lines 93-96, running at depth d
expand_all_items(st, item, d) ==
    IF TooDeep(d) THEN Raise(st, "RecursionError")
    ELSE expand_children(setExpanded(st, item, d), item, 1, d)

\* the for loop of lines 95-96
expand_children(st, item, i, d) ==
    IF st.exc # "none" \/ i > Len(st.items[item].children) THEN st
    ELSE expand_children(expand_all_items(st, st.items[item].children[i], d + 1),
                         item, i + 1, d)

\* load that clears the tree before it opens the file
load_clear_first(st, files, name, d) ==
    LET s0 == [st EXCEPT !.items = takeChildren(@, root)] IN
    IF files[name].kind = "missing" THEN Raise(s0, "IOError")
    ELSE IF files[name].kind = "malformed" THEN Raise(s0, "YAMLError")
    ELSE LET s1 == [s0 EXCEPT !.content = files[name].value]
             s2 == populate(s1, s1.content, root, marker, d + 1)
         IN  IF s2.exc # "none" THEN s2
             ELSE expand_all_items([s2 EXCEPT !.fname = name], root, d + 1)

\* load that records the path before it opens the file
load_records_first(st, files, name, d) ==
    LET s0 == [st EXCEPT !.fname = name] IN
    IF files[name].kind = "missing" THEN Raise(s0, "IOError")
    ELSE IF files[name].kind = "malformed" THEN Raise(s0, "YAMLError")
    ELSE LET s1 == [s0 EXCEPT !.content = files[name].value,
                              !.items = takeChildren(@, root)]
             s2 == populate(s1, s1.content, root, marker, d + 1)
         IN  IF s2.exc # "none" THEN s2
             ELSE expand_all_items(s2, root, d + 1)

\* load without line 137: the old children stay under the root
load_no_clear(st, files, name, d) ==
    IF files[name].kind = "missing" THEN Raise(st, "IOError")
    ELSE IF files[name].kind = "malformed" THEN Raise(st, "YAMLError")
    ELSE LET s1 == [st EXCEPT !.content = files[name].value]
             s2 == populate(s1, s1.content, root, marker, d + 1)
         IN  IF s2.exc # "none" THEN s2
             ELSE expand_all_items([s2 EXCEPT !.fname = name], root, d + 1)

\* load(fname), lines 133-140, running at depth d on the files files
load(st, files, name, d) ==
    IF files[name].kind = "missing" THEN Raise(st, "IOError")
    ELSE IF files[name].kind = "malformed" THEN Raise(st, "YAMLError")
    ELSE LET s1 == [st EXCEPT !.content = files[name].value,
                              !.items = takeChildren(@, root)]
             s2 == populate(s1, s1.content, root, marker, d + 1)
         IN  IF s2.exc # "none" THEN s2
             ELSE expand_all_items([s2 EXCEPT !.fname = name], root, d + 1)

\* re_load(), lines 89-91, running at depth d
re_load(st, files, d) ==
    IF st.fname # None THEN load(st, files, st.fname, d + 1) ELSE st

-----------------------------------------------------------------------------
(* Saving *)

\* result[key] = value on a dict kept as a sequence of [k, v]: an existing
\* key keeps its position and takes the new value, a new key goes last
DictAssign(es, k, v) ==
    IF \E i \in 1..Len(es) : es[i].k = k
    THEN [i \in 1..Len(es) |-> IF es[i].k = k THEN KV(k, v) ELSE es[i]]
    ELSE Append(es, KV(k, v))

RECURSIVE item_to_dict(_, _)
RECURSIVE children_to_dict(_, _, _, _)

\* item_to_dict that returns column 0 of a childless item
item_to_dict_label(its, item) ==
    IF Len(its[item].children) = 0 THEN PyStr(its[item].text[1])
    ELSE Dict(children_to_dict(its, item, 1, <<>>))

\* tree_to_yaml.item_to_dict(item), lines 156-165
item_to_dict(its, item) ==
    IF Len(its[item].children) = 0 THEN PyStr(its[item].text[2])
    ELSE Dict(children_to_dict(its, item, 1, <<>>))

\* the loops of lines 160-164 and 169-173
children_to_dict(its, item, i, result) ==
    IF i > Len(its[item].children) THEN result
    ELSE LET child == its[item].children[i] IN
         children_to_dict(its, item, i + 1,
             DictAssign(result, its[child].text[1], item_to_dict(its, child)))

\* root_dict of tree_to_yaml(item), lines 167-173
root_dict(its, item) == Dict(children_to_dict(its, item, 1, <<>>))

\* the strings that occur as labels, in the order sorted() gives them
KeyOrder == <<"0", "1", "2", "a", "b", "c", "d">>

Rank(k) == CHOOSE i \in 1..Len(KeyOrder) : KeyOrder[i] = k

RECURSIVE SortEntries(_)
\* sorted(mapping.items()) of yaml's representer: keys are distinct
SortEntries(es) ==
    IF Len(es) = 0 THEN <<>>
    ELSE LET m == CHOOSE i \in 1..Len(es) :
                     \A j \in 1..Len(es) : Rank(es[i].k) <= Rank(es[j].k)
         IN  <<es[m]>> \o SortEntries(SelectSeq(es, LAMBDA e : e.k # es[m].k))

RECURSIVE yaml_dump(_)
\* yaml.dump(root_dict, default_flow_style=False), line 175, as the value
\* the text written denotes: every mapping with its keys sorted, strings
\* quoted where needed so that they read back as the same strings
yaml_dump(v) ==
    IF v.kind = "dict"
    THEN LET es == SortEntries(v.entries) IN
         Dict([i \in 1..Len(es) |-> KV(es[i].k, yaml_dump(es[i].v))])
    ELSE v

\* tree_to_yaml(item), lines 154-175
tree_to_yaml(its, item) == yaml_dump(root_dict(its, item))

\* save that records the path it wrote to
save_records_path(st, files, name) ==
    IF name = "" THEN [st |-> Raise(st, "IOError"), files |-> files]
    ELSE [st |-> [st EXCEPT !.fname = name],
          files |-> [files EXCEPT ![name] = YamlFile(tree_to_yaml(st.items, root))]]

\* save that keeps the converted tree as the parsed content
save_rebinds_content(st, files, name) ==
    IF name = "" THEN [st |-> Raise(st, "IOError"), files |-> files]
    ELSE [st |-> [st EXCEPT !.content = root_dict(st.items, root)],
          files |-> [files EXCEPT ![name] = YamlFile(tree_to_yaml(st.items, root))]]

\* save(filename), lines 150-152: the object and the files after the call
save(st, files, name) ==
    IF name = "" THEN [st |-> Raise(st, "IOError"), files |-> files]
    ELSE [st |-> st,
          files |-> [files EXCEPT ![name] = YamlFile(tree_to_yaml(st.items, root))]]

-----------------------------------------------------------------------------
(* Events *)

Ops == {"init", "load", "reload", "expand", "collapse", "edit", "save"}

\* the history record of an event
Event(op, path, item, r, fresh, value) ==
    [op |-> op, path |-> path, item |-> item, error |-> r.exc,
     printed |-> r.printed, calls |-> r.calls, fresh |-> fresh, value |-> value]

Quiet == [exc |-> "none", printed |-> {}, calls |-> <<>>]

EditTexts == {"a"}

Init ==
    /\ items = (root :> Item("", "", FALSE)) @@ (marker :> Item("marker", "", TRUE))
    /\ item_map = << >>
    /\ fname = None
    /\ content = Unset
    /\ fs = InitFs
    /\ last = Event("init", "", root, Quiet, FALSE, Unset)
    /\ populated = {}
    /\ goodPath = None
    /\ nevents = 0

Commit(r) ==
    /\ items' = r.items
    /\ item_map' = r.item_map
    /\ fname' = r.fname
    /\ content' = r.content
    /\ populated' = populated \cup {r.calls[i].x : i \in 1..Len(r.calls)}

\* file_open (lines 67-76) with the path the dialog returned, or the
\* constructor's load of the command line's file (line 65)
Load(p) ==
    /\ nevents < MaxEvents
    /\ LET r == load(Self, fs, p, 2) IN
         /\ Commit(r)
         /\ last' = Event("load", p, root, r, FALSE, Unset)
         /\ goodPath' = IF r.exc = "none" THEN p ELSE goodPath
    /\ nevents' = nevents + 1
    /\ UNCHANGED fs

\* action_Reload / F5 (lines 58-59)
Reload ==
    /\ nevents < MaxEvents
    /\ LET r == re_load(Self, fs, 1) IN
         /\ Commit(r)
         /\ last' = Event("reload", fname, root, r, FALSE, Unset)
         /\ goodPath' = IF fname # None /\ r.exc = "none" THEN fname ELSE goodPath
    /\ nevents' = nevents + 1
    /\ UNCHANGED fs

\* the user opens a collapsed item that shows an expander
Expand(x) ==
    /\ nevents < MaxEvents
    /\ x \in Shown(items, root)
    /\ ~items[x].expanded
    /\ Len(items[x].children) > 0
    /\ LET r == setExpanded(Self, x, 0) IN
         /\ Commit(r)
         /\ last' = Event("expand", "", x, r, FALSE, Unset)
    /\ nevents' = nevents + 1
    /\ UNCHANGED <<fs, goodPath>>

\* the user closes an expanded item
Collapse(x) ==
    /\ nevents < MaxEvents
    /\ x \in Shown(items, root)
    /\ items[x].expanded
    /\ Len(items[x].children) > 0
    /\ items' = [items EXCEPT ![x].expanded = FALSE]
    /\ last' = Event("collapse", "", x, Quiet, FALSE, Unset)
    /\ nevents' = nevents + 1
    /\ UNCHANGED <<item_map, fname, content, fs, populated, goodPath>>

\* the user edits column col of an editable item (flags of lines 105, 113, 121)
Edit(x, col, t) ==
    /\ nevents < MaxEvents
    /\ x \in Shown(items, root)
    /\ items[x].editable
    /\ items[x].text[col] # t
    /\ items' = [items EXCEPT ![x].text[col] = t]
    /\ last' = Event("edit", "", x, Quiet, FALSE, Unset)
    /\ nevents' = nevents + 1
    /\ UNCHANGED <<item_map, fname, content, fs, populated, goodPath>>

\* file_save (lines 78-87) with the path the dialog returned
Save(p) ==
    /\ nevents < MaxEvents
    /\ LET r == save(Self, fs, p) IN
         /\ Commit(r.st)
         /\ fs' = r.files
         /\ last' = Event("save", p, root, r.st,
                          last.op \in {"load", "reload"} /\ last.error = "none"
                             /\ last.path # None,
                          IF r.st.exc = "none" THEN root_dict(items, root) ELSE Unset)
    /\ nevents' = nevents + 1
    /\ UNCHANGED goodPath

Next ==
    \/ \E p \in Paths : Load(p)
    \/ Reload
    \/ \E x \in DOMAIN items : Expand(x)
    \/ \E x \in DOMAIN items : Collapse(x)
    \/ \E x \in DOMAIN items, col \in {1, 2}, t \in EditTexts : Edit(x, col, t)
    \/ \E p \in SavePaths : Save(p)

Spec == Init /\ [][Next]_vars

TypeOK ==
    /\ last.op \in Ops
    /\ \A x \in Subtree(items, root) : items[x].text[1] \in Range(KeyOrder) \cup {""}

-----------------------------------------------------------------------------
(* Properties *)

Tree == Subtree(items, root)

Label(its, c) == its[c].text[1]

HasPlaceholder(x) == \E c \in Range(items[x].children) : items[c].marker

IsContainer(v) == type(v) \in {"dict", "list"}

\* a load or a reload of an open document has returned without an exception
LoadReturned == last.op \in {"load", "reload"} /\ last.error = "none" /\ last.path # None

RECURSIVE Acyclic(_, _)
\* v contains no object that contains itself (nesting below fuel levels)
Acyclic(v, fuel) ==
    IF ~IsContainer(v) THEN TRUE
    ELSE IF fuel = 0 THEN FALSE
    ELSE \A i \in 1..Len(Entries(v)) : Acyclic(Entries(v)[i].v, fuel - 1)

RECURSIVE MapsAndScalars(_, _)
\* v is built from mappings and scalars only
MapsAndScalars(v, fuel) ==
    IF type(v) = "list" THEN FALSE
    ELSE IF type(v) # "dict" THEN TRUE
    ELSE IF fuel = 0 THEN FALSE
    ELSE \A i \in 1..Len(Entries(v)) : MapsAndScalars(Entries(v)[i].v, fuel - 1)

RECURSIVE StructEq(_, _)
\* w equals the acyclic v up to scalar string formatting: same keys, same
\* nesting, same order, mappings are mappings, scalars are strings
StructEq(v, w) ==
    IF type(v) = "dict"
    THEN /\ w.kind = "dict"
         /\ Len(w.entries) = Len(Deref(v).entries)
         /\ \A i \in 1..Len(w.entries) :
               /\ w.entries[i].k = Deref(v).entries[i].k
               /\ StructEq(Deref(v).entries[i].v, w.entries[i].v)
    ELSE w.kind = "str"

\* C1: right after load returns, only the root's immediate children are
\* materialized: every container child of the root holds just its
\* placeholder and every other child has no children.
C1_LazyLoadSafety ==
    LoadReturned =>
        \A i \in 1..Len(items[root].children) :
            LET g == items[items[root].children[i]].children IN
            IF IsContainer(Entries(content)[i].v)
            THEN Len(g) = 1 /\ items[g[1]].marker
            ELSE g = <<>>

\* C2: an expand event on an item that populate has already run on leaves
\* the item's children as they were and raises nothing.
C2_IdempotentPopulation ==
    [][(last'.op = "expand" /\ last'.item \in populated)
          => /\ items'[last'.item].children = items[last'.item].children
             /\ DOMAIN items' = DOMAIN items
             /\ last'.error = "none" /\ last'.printed = {}]_vars

C2_Witness ==
    /\ last.op = "expand" /\ last.item \in populated
    /\ last.item # root /\ Len(items[last.item].children) > 0

SeqLabels == <<"0", "1", "2", "3">>

\* C3: after every populate call for a mapping or a sequence that returned,
\* the item has no placeholder child and exactly one real child per entry,
\* in entry order, labelled with the keys in insertion order (mapping) or
\* with "0", "1", ... (sequence).
C3_ExactMaterialization ==
    \A i \in 1..Len(last.calls) :
        LET c == last.calls[i]
            kids == items[c.x].children
        IN  /\ type(c.v) = "dict" =>
                /\ Len(kids) = Len(Deref(c.v).entries)
                /\ \A j \in 1..Len(kids) :
                      ~items[kids[j]].marker
                      /\ Label(items, kids[j]) = Deref(c.v).entries[j].k
            /\ type(c.v) = "list" =>
                /\ Len(kids) = Len(Deref(c.v).elems)
                /\ \A j \in 1..Len(kids) :
                      ~items[kids[j]].marker /\ Label(items, kids[j]) = SeqLabels[j]

C3_Witness ==
    \E i, j \in 1..Len(last.calls) :
        /\ last.calls[i].x # root /\ type(last.calls[i].v) = "dict"
        /\ Len(Deref(last.calls[i].v).entries) = 2
        /\ last.calls[j].x # root /\ type(last.calls[j].v) = "list"
        /\ Len(Deref(last.calls[j].v).elems) = 1

\* C4: every document, also one whose mapping contains itself, is opened
\* by load without the expansion running into the recursion limit.
C4_CircularDocumentsOpen ==
    last.op \in {"load", "reload"} => "RecursionError" \notin last.printed

\* C5: a load that fails on opening, reading or parsing the file leaves the
\* tree, the registry, the parsed content and the recorded path as they were.
C5_FailedLoadAtomic ==
    [][(last'.op \in {"load", "reload"} /\ last'.error \in {"IOError", "YAMLError"})
          => /\ items' = items /\ item_map' = item_map
             /\ fname' = fname /\ content' = content]_vars

C5_Witness ==
    /\ last.op = "load" /\ last.error = "YAMLError"
    /\ fname # None /\ Len(items[root].children) > 0

\* C6: save, succeeding or failing, changes nothing in memory: items,
\* registry, content and recorded path stay as they were.
C6_SaveFrame ==
    [][last'.op = "save"
          => /\ items' = items /\ item_map' = item_map
             /\ fname' = fname /\ content' = content]_vars

C6_Witness ==
    /\ last.op = "save" /\ last.error = "none"
    /\ fname # None /\ last.path # fname

\* C7: the recorded path is None until a load returns and is afterwards the
\* path of the most recent load that returned; reload without a recorded
\* path changes nothing and raises nothing; reload with one does what load
\* of that path does.
C7_Reload ==
    /\ fname = None /\ goodPath = None
    /\ [][/\ fname' = goodPath'
          /\ (last'.op = "reload" /\ fname = None)
                => /\ items' = items /\ item_map' = item_map /\ fname' = None
                   /\ content' = content /\ last'.error = "none"
          /\ (last'.op = "reload" /\ fname # None)
                => LET r == load(Self, fs, fname, 2) IN
                   /\ items' = r.items /\ item_map' = r.item_map
                   /\ fname' = r.fname /\ content' = r.content
                   /\ last'.error = r.exc]_vars

C7_Witness ==
    /\ last.op = "reload" /\ last.error = "none"
    /\ fname # None /\ fname = goodPath /\ Len(items[root].children) > 0

\* C8: saving right after loading a document of mappings and scalars
\* writes a value equal to the loaded one up to scalar formatting: same
\* keys, same nesting, same order, every mapping a mapping.
C8_FreshRoundTrip ==
    (last.op = "save" /\ last.error = "none" /\ last.fresh
        /\ MapsAndScalars(content, MaxValueDepth))
      => StructEq(content, fs[last.path].value)

RECURSIVE ToValueUniform(_, _)
\* the rule of the claim, the same for the root and for every descendant
ToValueUniform(its, n) ==
    LET kids == its[n].children IN
    IF Len(kids) = 0 THEN PyStr(its[n].text[2])
    ELSE Dict([i \in 1..Len(kids) |->
                 KV(Label(its, kids[i]), ToValueUniform(its, kids[i]))])

\* C9 as stated: the value save converts the root to follows the one rule.
C9_ToValueUniform ==
    (last.op = "save" /\ last.error = "none") => last.value = ToValueUniform(items, root)

RECURSIVE ToValueAmended(_, _, _)
\* the root is always a mapping; a childless descendant is its column 1; a
\* mapping has one entry per distinct child label, at the place of the
\* first child with that label and with the value of the last one
ToValueAmended(its, n, isRoot) ==
    LET kids == its[n].children
        Firsts == SelectSeq([i \in 1..Len(kids) |-> i],
                     LAMBDA i : \A j \in 1..(i - 1) :
                                   Label(its, kids[j]) # Label(its, kids[i]))
        LastOf(i) == CHOOSE j \in 1..Len(kids) :
                        /\ Label(its, kids[j]) = Label(its, kids[i])
                        /\ \A m \in (j + 1)..Len(kids) :
                              Label(its, kids[m]) # Label(its, kids[i])
    IN  IF Len(kids) = 0 /\ ~isRoot THEN PyStr(its[n].text[2])
        ELSE Dict([i \in 1..Len(Firsts) |->
                     KV(Label(its, kids[Firsts[i]]),
                        ToValueAmended(its, kids[LastOf(Firsts[i])], FALSE))])

\* C9 amended: the root is converted to a mapping even when it has no
\* children; every descendant without children is converted to its displayed
\* value as a string, every other item to a mapping with one entry per
\* distinct child label in child order (so a sequence becomes a mapping keyed
\* "0", "1", ...).
C9_ToValue ==
    (last.op = "save" /\ last.error = "none") => last.value = ToValueAmended(items, root, TRUE)

C9_Witness ==
    /\ last.op = "save" /\ last.error = "none" /\ type(content) = "list"
    /\ \E i \in 1..Len(last.value.entries) :
          /\ last.value.entries[i].v.kind = "dict"
          /\ last.value.entries[i].v.entries[1].k = "0"

C11_AllRegistered == \A x \in Tree : x \in DOMAIN item_map

\* C11 amended: every item of the tree other than the root has an entry in
\* _item_map, the root has one from the first load that returned on, and no
\* lookup in expanded has failed.
C11_Registered ==
    /\ \A x \in Tree \ {root} : x \in DOMAIN item_map
    /\ fname # None => root \in DOMAIN item_map
    /\ last.error # "KeyError" /\ "KeyError" \notin last.printed

C11_Witness ==
    /\ last.op = "expand" /\ last.printed = {}
    /\ \E x, y \in Tree \ {root} :
          /\ items[x].children = <<>> /\ item_map[x] = Good
          /\ Len(items[y].children) > 0 /\ y \in DOMAIN item_map


\* the files load can parse
YamlPaths == {p \in Paths : fs[p].kind = "yaml"}

\* the object inside load(p) after line 138: tree cleared, root populated,
\* nothing expanded yet
AfterRootPopulate(p) ==
    populate([Self EXCEPT !.content = fs[p].value, !.items = takeChildren(@, root)],
             fs[p].value, root, marker, 3)

\* the rows of st that still hold a populating handler
Pending(st) ==
    {x \in Subtree(st.items, root) \ {root} :
        x \in DOMAIN st.item_map /\ st.item_map[x].kind = "populate"}

\* the items populate has returned on, in st
Done(st) == populated \cup {st.calls[i].x : i \in 1..Len(st.calls)}

\* the registry invariant on the rows of st (the invisible root is no row)
RegistryInvOn(st) ==
    \A x \in Subtree(st.items, root) \ {root} :
        ~st.items[x].marker =>
            LET ph == {c \in Range(st.items[x].children) : st.items[c].marker} IN
            /\ x \in DOMAIN st.item_map
            /\ ph # {} => st.item_map[x].kind = "populate"
            /\ ph = {} => (st.item_map[x] = Good \/ x \in Done(st))

C13_LoadReplaces ==
    [][(last'.op \in {"load", "reload"} /\ last'.error = "none" /\ last'.path # None)
          => LET kids == items'[root].children
                 v == fs[last'.path].value
             IN  /\ content' = v
                 /\ Len(kids) = Len(Entries(v))
                 /\ \A i \in 1..Len(kids) :
                       Label(items', kids[i]) =
                          (IF type(v) = "dict" THEN Deref(v).entries[i].k ELSE SeqLabels[i])
                 /\ Subtree(items', root) \cap DOMAIN items = {root}
                 /\ fname' = last'.path]_vars

C13_Witness ==
    /\ LoadReturned /\ Len(items[root].children) > 0
    /\ \E x \in DOMAIN items \ Tree : items[x].editable /\ items[x].text[2] = "a"


\* the summaries and scalar texts the rows are to show, written out
SummaryText == <<"(list with 0 items)", "(list with 1 item)", "(list with 2 items)">>

IntText == (-3 :> "-3") @@ (1 :> "1")

ScalarText(w) ==
    CASE w.kind = "int"  -> IntText[w.n]
      [] w.kind = "str"  -> w.s
      [] w.kind = "bool" -> (IF w.b THEN "True" ELSE "False")
      [] OTHER           -> "None"

\* the children populate gave item for the value v, in the object st
\* reached from the object s0
Classified(s0, st, item, v) ==
    LET kids == st.items[item].children IN
    \A j \in 1..Len(kids) :
        LET x == kids[j]
            w == IF type(v) = "dict" THEN Deref(v).entries[j].v ELSE Deref(v).elems[j]
            g == st.items[x].children
        IN  IF type(w) \in {"dict", "list"}
            THEN /\ Len(g) = 1
                 /\ st.items[g[1]].marker /\ st.items[g[1]].children = <<>>
                 /\ g[1] \notin DOMAIN s0.items
                 /\ g[1] \notin DOMAIN st.item_map
                 /\ st.item_map[x] = Closure(w, x, g[1])
                 /\ st.items[x].text[2] =
                       (IF type(w) = "dict" THEN ""
                        ELSE SummaryText[Len(Deref(w).elems) + 1])
            ELSE /\ g = <<>>
                 /\ st.items[x].text[2] = ScalarText(Deref(w))
                 /\ st.item_map[x] = Good

\* C14: populate makes a mapping or sequence entry a container child with
\* one fresh placeholder child, the closure over the child, the entry's value
\* and that placeholder as handler, and the summary "(list with N items)"
\* ("item" when N = 1) for a sequence and none for a mapping; any other entry
\* becomes a childless leaf showing the scalar's string form, with self.good.
C14_Classification ==
    \A p \in YamlPaths :
        LET s == AfterRootPopulate(p) IN
        /\ Classified(Self, s, root, fs[p].value)
        /\ \A x \in Pending(s) :
              Classified(s, setExpanded(s, x, 0), x, s.item_map[x].v)

C14_Witness ==
    /\ LoadReturned
    /\ \E x, y, z \in Tree \ {root} :
          /\ items[x].text[2] = "(list with 1 item)" /\ Len(items[x].children) = 1
          /\ items[y].text[2] = "(list with 0 items)"
          /\ items[z].text[2] = "None" /\ item_map[z] = Good


RECURSIVE Materialized(_, _)
\* below the item n made for the value v, every container item whose
\* itemExpanded was handled (it is flagged expanded) shows one real child
\* per entry of its value
Materialized(n, v) ==
    LET kids == items[n].children IN
    /\ Len(kids) = Len(Entries(v))
    /\ \A j \in 1..Len(kids) :
          (IsContainer(Entries(v)[j].v) /\ items[kids[j]].expanded)
             => /\ ~HasPlaceholder(kids[j])
                /\ Materialized(kids[j], Entries(v)[j].v)

\* C15: when the expansion of a container item has been handled, the item
\* shows its real children and no placeholder before any later event is
\* handled, so no event is handled on a child of an item showing a
\* placeholder.
C15_SynchronousExpansion ==
    /\ fname # None => Materialized(root, content)
    /\ last.op \in {"expand", "collapse", "edit"} =>
          \A x \in Tree : last.item \in Range(items[x].children) => ~HasPlaceholder(x)


\* C16: no expand, collapse, edit or save event changes the parsed content,
\* and a pending container whose label was edited is populated, when
\* expanded, with the entries of the value it was created for, its edited
\* label kept and the content unchanged.
C16_ContentImmutable ==
    [][/\ last'.op \in {"expand", "collapse", "edit", "save"} => content' = content
       /\ \A p \in YamlPaths :
             LET s == AfterRootPopulate(p) IN
             \A x \in Pending(s), t \in EditTexts :
                 LET e == [s EXCEPT !.items[x].text[1] = t]
                     r == setExpanded(e, x, 0)
                     v == s.item_map[x].v
                     kids == r.items[x].children
                 IN  /\ r.content = fs[p].value
                     /\ r.items[x].text[1] = t
                     /\ Len(kids) = Len(Entries(v))
                     /\ \A j \in 1..Len(kids) :
                           Label(r.items, kids[j]) =
                              (IF type(v) = "dict" THEN Deref(v).entries[j].k
                               ELSE SeqLabels[j])]_vars

C16_Witness ==
    /\ last.op = "save" /\ last.error = "none" /\ fname # None
    /\ Len(items[root].children) = Len(Entries(content))
    /\ \E i \in 1..Len(items[root].children) :
          /\ type(content) = "dict"
          /\ Label(items, items[root].children[i]) # Deref(content).entries[i].k
    /\ \E p \in YamlPaths : Pending(AfterRootPopulate(p)) # {}


RECURSIVE KeepsChildren(_, _)
\* the value v written for the item n has one entry per child of n, each
\* child's own entry in the child's place, and so on below
KeepsChildren(n, v) ==
    LET kids == items[n].children IN
    Len(kids) > 0 =>
        /\ v.kind = "dict"
        /\ Len(v.entries) = Len(kids)
        /\ \A i \in 1..Len(kids) :
              /\ v.entries[i].k = Label(items, kids[i])
              /\ KeepsChildren(kids[i], v.entries[i].v)

\* C17: save drops no item: the mapping written for an item with children
\* has exactly one entry per child, after any edits of labels and values.
C17_SaveDropsNoNode ==
    (last.op = "save" /\ last.error = "none") => KeepsChildren(root, last.value)

\* C18: every key of _item_map is the root or an item of the current tree.
C18_RegistryLive == DOMAIN item_map \subseteq Tree

====
